---- MODULE Spec2Model ----
(***************************************************************************)
(* oncall_export.py: the PagerDuty on-call exporter.                       *)
(*                                                                         *)
(* main() collects the on-call records and the users (paginated GETs),     *)
(* builds a timetable from the records (oncalls_to_timetable,              *)
(* timetable_normalize), turns it into schedule rows (create_schedule),    *)
(* prints them, writes the CSV file and uploads it (login, upload,         *)
(* verify, save).                                                          *)
(*                                                                         *)
(* Timestamps are the strings '%Y-%m-%dT%H:%M:%SZ' in the code; they have  *)
(* a fixed width, so their string order is their time order, and they are  *)
(* modelled as whole seconds 0..MaxT.  Python's None is the value None; a  *)
(* Python dict is a function whose DOMAIN is the set of keys present, so   *)
(* that a missing key and a key holding None stay different things.        *)
(***************************************************************************)
EXTENDS Integers, Sequences, FiniteSets, TLC

\* Bounds of the model.
MaxT == 2
MaxLen == 3
MaxLimit == 3
MaxRequests == 4

None == "None"
Users == {"u1", "u2"}
Levels == {1, 2, 3}
Roles == {"primary", "secondary"}
Timestamps == 0..MaxT

\* One record of the 'oncalls' module, with the fields the code reads.
Oncall == [escalation_level : Levels, user : Users, start : Timestamps, end : Timestamps]
Records == {r \in Oncall : r.start <= r.end}

SeqsUpTo(S, n) == UNION {[1..k -> S] : k \in 0..n}

VARIABLES
    pc,              \* the statement main() is at
    err,             \* the exception raised, None when none was
    timezone,        \* cfg['pagerduty']['timezone']
    source,          \* what the PagerDuty API holds: the records per module, the page size
    payload,         \* the request parameters of the running pagerduty_api_request
    reply,           \* its last reply: offset, limit, more
    data,            \* the records it has collected
    requests,        \* the GETs it has sent
    statuses,        \* the statuses the page requests of the run ended with
    oncalls_list,    \* create_schedule's first argument
    users_dict,      \* create_schedule's second argument
    timetable_dict,
    tracked_dict,    \* the timetable_dict that the records of the levels 1 and 2 alone give
    untracked,       \* TRUE once the loop has read a record of another level
    timetable_list,
    i,               \* create_schedule's loop index (1-based)
    schedule_list,
    turns,           \* per turn of create_schedule's loop: its local variables and how it ended
    printed,         \* what print_schedule has shown
    csv_file,        \* the lines of cfg['csv_file'], None before it is written
    portal           \* the upload portal: session, uploaded file, committed file,
                     \* and the log of the steps run against it, with their outcomes

vars == <<pc, err, timezone, source, payload, reply, data, requests, statuses,
          oncalls_list, users_dict, timetable_dict, tracked_dict, untracked, timetable_list, i,
          schedule_list, turns, printed, csv_file, portal>>

(***************************************************************************)
(* Python dicts and lists                                                  *)
(***************************************************************************)

\* d[k] = v; also dict.update({k: v})
DictSet(d, k, v) == [x \in DOMAIN d \cup {k} |-> IF x = k THEN v ELSE d[x]]

\* d.setdefault(k, {}) followed by .update({role: v}) on the entry
EntryUpdate(d, k, role, v) ==
    DictSet(d, k, DictSet(IF k \in DOMAIN d THEN d[k] ELSE <<>>, role, v))

\* lst[idx] for a 0-based Python index, negative ones counting from the end,
\* as a 1-based position of a list of n elements
PyIndex(idx, n) == IF idx < 0 THEN n + idx + 1 ELSE idx + 1

Min(S) == CHOOSE x \in S : \A y \in S : x <= y

RECURSIVE SortedKeys(_)
SortedKeys(S) == IF S = {} THEN <<>> ELSE <<Min(S)>> \o SortedKeys(S \ {Min(S)})

(***************************************************************************)
(* oncalls_to_timetable                                                    *)
(***************************************************************************)

\* A map that files every other escalation level under 'secondary'
roles_map_every_level(level) == IF level = 1 THEN "primary" ELSE "secondary"

roles_map(level) ==
    CASE level = 1 -> "primary"
      [] level = 2 -> "secondary"
      [] OTHER -> None

\* The body of the for loop: one record's start sets its role, its end clears it.
LoadOncall(d, oncall) ==
    LET role == roles_map(oncall.escalation_level)
    IN  IF role \in {"primary", "secondary"}
        THEN EntryUpdate(EntryUpdate(d, oncall.start, role, oncall.user),
                         oncall.end, role, None)
        ELSE d

RECURSIVE LoadOncalls(_, _, _)
LoadOncalls(d, l, n) ==
    IF n > Len(l) THEN d ELSE LoadOncalls(LoadOncall(d, l[n]), l, n + 1)

oncalls_to_timetable(l) == LoadOncalls(<<>>, l, 1)

\* The escalation levels of the tracked roles: 1 is primary, 2 is secondary
HasTrackedLevel(oncall) == oncall.escalation_level \in {1, 2}

(***************************************************************************)
(* timetable_normalize                                                     *)
(*                                                                         *)
(* The result is [err, list]: err is the exception the function raised,    *)
(* list the timetable_list it returns.  An element {item: entry} of the    *)
(* list is the record [at |-> item, roles |-> entry].                      *)
(***************************************************************************)

\* One role's fill-in of the entry appended at 0-based position cnt: a role
\* missing from the entry is read from timetable_list[cnt-1], and for cnt = 0
\* the index -1 is the entry itself (the list holds one element).
\* A fill-in that reads a missing role from timetable_list[0]
FillRoleFromFirst(tl, cnt, entry, role) ==
    IF role \in DOMAIN entry THEN [err |-> None, entry |-> entry]
    ELSE LET prev == IF cnt = 0 THEN entry ELSE tl[1].roles
         IN  IF role \in DOMAIN prev
             THEN [err |-> None, entry |-> DictSet(entry, role, prev[role])]
             ELSE [err |-> "KeyError", entry |-> entry]

FillRole(tl, cnt, entry, role) ==
    IF role \in DOMAIN entry THEN [err |-> None, entry |-> entry]
    ELSE LET prevpos == PyIndex(cnt - 1, cnt + 1)
             prev == IF prevpos = cnt + 1 THEN entry ELSE tl[prevpos].roles
         IN  IF role \in DOMAIN prev
             THEN [err |-> None, entry |-> DictSet(entry, role, prev[role])]
             ELSE [err |-> "KeyError", entry |-> entry]

RECURSIVE NormalizeFrom(_, _, _)
NormalizeFrom(tl, d, items) ==
    IF items = <<>> THEN [err |-> None, list |-> tl]
    ELSE LET item == Head(items)
             cnt == Len(tl)
             p == FillRole(tl, cnt, d[item], "primary")
             s == FillRole(tl, cnt, p.entry, "secondary")
         IN  IF p.err # None THEN [err |-> p.err, list |-> tl]
             ELSE IF s.err # None THEN [err |-> s.err, list |-> tl]
             ELSE NormalizeFrom(Append(tl, [at |-> item, roles |-> s.entry]), d, Tail(items))

\* A timetable_normalize that reads timetable_list[0] before its loop
timetable_normalize_first_read(d) ==
    IF DOMAIN d = {} THEN [err |-> "IndexError", list |-> <<>>]
    ELSE NormalizeFrom(<<>>, d, SortedKeys(DOMAIN d))

timetable_normalize(d) == NormalizeFrom(<<>>, d, SortedKeys(DOMAIN d))

(***************************************************************************)
(* utc_to_local, get_phone, get_username                                   *)
(***************************************************************************)

\* A timezone of the tz database: its UTC offset is 'before' up to the instant
\* 'at' of its daylight-saving transition and 'after' from it on.
SpringForward == [before |-> 1, after |-> 2, at |-> 1]
FallBack == [before |-> 2, after |-> 1, at |-> 1]
TimeZones == {SpringForward, FallBack}

\* utc_to_local(utc_dt) followed by strftime('%Y-%m-%d %H:%M:%S'): the wall
\* clock of the zone at the instant t, the offset itself is not printed.
utc_to_local(tz, t) == t + (IF t < tz.at THEN tz.before ELSE tz.after)

\* The displayed start of a row: the conversion of its start boundary
start_local(tz, start) == utc_to_local(tz, start)

\* A displayed end with no second taken off
end_local_of_boundary(tz, end) == utc_to_local(tz, end)

\* The displayed end of a row: the conversion of (end - timedelta(seconds=1))
end_local(tz, end) == utc_to_local(tz, end - 1)

PhoneMethod == [type |-> "phone_contact_method", country_code |-> 49, address |-> 170]
EmailMethod == [type |-> "email_contact_method", country_code |-> 0, address |-> 0]

UserRecord(id, methods) == [id |-> id, summary |-> <<"name", id>>, contact_methods |-> methods]

\* The records the 'users' module may hold: every user with a phone, a user
\* with no phone contact method, a user missing from the directory.
UserSources ==
    { <<UserRecord("u1", <<EmailMethod, PhoneMethod>>), UserRecord("u2", <<PhoneMethod>>)>>,
      <<UserRecord("u1", <<PhoneMethod>>), UserRecord("u2", <<EmailMethod>>)>>,
      <<UserRecord("u1", <<PhoneMethod>>)>> }

\* dict((item['id'], item) for item in users): a later item replaces an earlier one of its id
RECURSIVE DictOfUsers(_, _, _)
DictOfUsers(d, l, n) ==
    IF n > Len(l) THEN d ELSE DictOfUsers(DictSet(d, l[n].id, l[n]), l, n + 1)

IsPhone(m) == m.type = "phone_contact_method"

\* [err, val]: KeyError for a user_id that is no key of users_dict (None is
\* none), TypeError when the user has no phone contact method (None is subscripted).
get_phone(users, user_id) ==
    IF user_id \notin DOMAIN users THEN [err |-> "KeyError", val |-> None]
    ELSE LET phones == SelectSeq(users[user_id].contact_methods, IsPhone)
         IN  IF phones = <<>> THEN [err |-> "TypeError", val |-> None]
             ELSE [err |-> None,
                   val |-> <<"00", Head(phones).country_code, Head(phones).address>>]

get_username(users, user_id) ==
    IF user_id \notin DOMAIN users THEN [err |-> "KeyError", val |-> None]
    ELSE [err |-> None, val |-> users[user_id].summary]

(***************************************************************************)
(* create_schedule: the body of its loop for the (1-based) index idx       *)
(***************************************************************************)

\* "Skip rows with no oncall person"
NoOncallPerson(primary, secondary) == primary = None /\ secondary = None

\* start = next(x for x in timetable_list[i].keys())
RowStart(tl, idx) == tl[idx].at

\* RowEnd with the index of the row's own snapshot
RowEndOfSameSnapshot(tl, idx) == tl[idx].at

\* end = next(x for x in timetable_list[i+1].keys())
RowEnd(tl, idx) == tl[idx + 1].at

\* The phone and name shown for an occupant when a vacant one is let through
ShownPhone(users, user_id) ==
    IF user_id = None THEN [err |-> None, val |-> None] ELSE get_phone(users, user_id)

ShownName(users, user_id) ==
    IF user_id = None THEN [err |-> None, val |-> None] ELSE get_username(users, user_id)

\* ScheduleRow without the skip of the rows with no oncall person, a vacant
\* occupant shown as None
ScheduleRowNoSkip(tl, idx, users, tz) ==
    LET start == RowStart(tl, idx)
        end == RowEnd(tl, idx)
        primary == tl[idx].roles["primary"]
        secondary == tl[idx].roles["secondary"]
        pp == ShownPhone(users, primary)
        pn == ShownName(users, primary)
        sp == ShownPhone(users, secondary)
        sn == ShownName(users, secondary)
        raised == IF pp.err # None THEN pp.err
                  ELSE IF pn.err # None THEN pn.err
                  ELSE IF sp.err # None THEN sp.err
                  ELSE sn.err
        locals == [i |-> idx, start |-> start, end |-> end,
                   primary |-> primary, secondary |-> secondary]
    IN  IF raised # None
        THEN [kind |-> "raise", err |-> raised, locals |-> locals]
        ELSE [kind |-> "append", err |-> None, locals |-> locals,
              row |-> [start_local |-> start_local(tz, start),
                       end_local |-> end_local(tz, end),
                       primary_phone |-> pp.val,
                       primary_contact |-> pn.val,
                       secondary_phone |-> sp.val,
                       secondary_contact |-> sn.val]]

ScheduleRow(tl, idx, users, tz) ==
    LET start == RowStart(tl, idx)
        end == RowEnd(tl, idx)
        primary == tl[idx].roles["primary"]
        secondary == tl[idx].roles["secondary"]
        pp == get_phone(users, primary)
        pn == get_username(users, primary)
        sp == get_phone(users, secondary)
        sn == get_username(users, secondary)
        raised == IF pp.err # None THEN pp.err
                  ELSE IF pn.err # None THEN pn.err
                  ELSE IF sp.err # None THEN sp.err
                  ELSE sn.err
        locals == [i |-> idx, start |-> start, end |-> end,
                   primary |-> primary, secondary |-> secondary]
    IN  IF NoOncallPerson(primary, secondary)
        THEN [kind |-> "continue", err |-> None, locals |-> locals]
        ELSE IF raised # None
        THEN [kind |-> "raise", err |-> raised, locals |-> locals]
        ELSE [kind |-> "append", err |-> None, locals |-> locals,
              row |-> [start_local |-> start_local(tz, start),
                       end_local |-> end_local(tz, end),
                       primary_phone |-> pp.val,
                       primary_contact |-> pn.val,
                       secondary_phone |-> sp.val,
                       secondary_contact |-> sn.val]]

\* The row loop from its turn idx on: [err, rows], err the exception that ends
\* it early and rows the schedule_list built by then.
RECURSIVE ScheduleRows(_, _, _, _, _)
ScheduleRows(tl, idx, users, tz, rows) ==
    IF idx > Len(tl) - 1 THEN [err |-> None, rows |-> rows]
    ELSE LET r == ScheduleRow(tl, idx, users, tz)
         IN  CASE r.kind = "continue" -> ScheduleRows(tl, idx + 1, users, tz, rows)
               [] r.kind = "raise" -> [err |-> r.err, rows |-> rows]
               [] r.kind = "append" ->
                    ScheduleRows(tl, idx + 1, users, tz, Append(rows, r.row))

\* create_schedule from the timetable_dict on, as one function
ScheduleOf(d, users, tz) ==
    LET r == timetable_normalize(d)
    IN  IF r.err # None THEN [err |-> r.err, rows |-> <<>>]
        ELSE ScheduleRows(r.list, 1, users, tz, <<>>)

(***************************************************************************)
(* pagerduty_api_request                                                   *)
(***************************************************************************)

\* https_session retries a GET that is answered 500, 502, 503 or 504; when the
\* retries are used up, session.get raises requests' RetryError, which is no
\* RuntimeError.  Any other status comes back as the response.  (A POST is
\* not retried on its status.)
status_forcelist == {500, 502, 503, 504}

\* The statuses a request ends with, the retries included
Statuses == {200, 404, 503}

\* RequestFailed that lets every status through
RequestFailedNever(status) == FALSE

\* The status that makes the request raise
RequestFailed(status) == status # 200

\* reply = {'offset': 0, 'more': True, 'limit': 25} before the first request
FirstReply == [offset |-> 0, more |-> TRUE, limit |-> 25]

\* The source's answer to a GET with the parameters p: the records at the
\* positions [o, o + limit) of its list l and whether more follow.  A request
\* that names no offset is answered from offset 0.
SourceReply(l, limit, p) ==
    LET o == IF "offset" \in DOMAIN p THEN p["offset"] ELSE 0
        last == IF o + limit < Len(l) THEN o + limit ELSE Len(l)
    IN  [offset |-> o, limit |-> limit, more |-> o + limit < Len(l),
         records |-> SubSeq(l, o + 1, last)]

\* The offset of the next request
NextOffset(r) == r.offset + r.limit - 1

Module == IF pc = "get_oncalls" THEN "oncalls" ELSE "users"

\* One turn of the while loop: a GET, the status test, the reply's records added.
\* A response with a status other than 200 raises RuntimeError, which main()
\* catches: it prints the message and returns 1.  The RetryError of a GET
\* whose retries are used up is not caught: the program ends with a traceback.
Request ==
    /\ pc \in {"get_oncalls", "get_users"}
    /\ reply.more = TRUE
    /\ requests < MaxRequests
    /\ \E status \in Statuses :
         /\ statuses' = statuses \cup {status}
         /\ requests' = requests + 1
         /\ IF status \in status_forcelist
            THEN /\ err' = "RetryError"
                 /\ pc' = "crashed"
                 /\ UNCHANGED <<payload, reply, data>>
            ELSE IF RequestFailed(status)
            THEN /\ err' = "RuntimeError"
                 /\ pc' = "return1"
                 /\ UNCHANGED <<payload, reply, data>>
            ELSE LET r == SourceReply(source[Module], source.limit, payload)
                 IN  /\ reply' = [offset |-> r.offset, limit |-> r.limit, more |-> r.more]
                     /\ payload' = DictSet(payload, "offset", NextOffset(r))
                     /\ data' = data \o r.records
                     /\ UNCHANGED <<pc, err>>
    /\ UNCHANGED <<timezone, source, oncalls_list, users_dict, timetable_dict, tracked_dict, untracked,
                   timetable_list, i, schedule_list, turns, printed, csv_file, portal>>

\* get_oncalls returns the collected records; main() calls get_users.
OncallsReturn ==
    /\ pc = "get_oncalls"
    /\ reply.more # TRUE
    /\ oncalls_list' = data
    /\ pc' = "get_users"
    /\ payload' = <<>>
    /\ reply' = FirstReply
    /\ data' = <<>>
    /\ requests' = 0
    /\ UNCHANGED <<err, timezone, source, statuses, users_dict, timetable_dict, tracked_dict, untracked,
                   timetable_list, i, schedule_list, turns, printed, csv_file, portal>>

\* get_users returns the dict of the collected users; main() calls create_schedule.
UsersReturn ==
    /\ pc = "get_users"
    /\ reply.more # TRUE
    /\ users_dict' = DictOfUsers(<<>>, data, 1)
    /\ pc' = "create_schedule"
    /\ UNCHANGED <<err, timezone, source, payload, reply, data, requests, statuses,
                   oncalls_list, timetable_dict, tracked_dict, untracked, timetable_list, i, schedule_list,
                   turns, printed, csv_file, portal>>

(***************************************************************************)
(* create_schedule                                                         *)
(***************************************************************************)

\* timetable_dict = oncalls_to_timetable(oncalls_list)
OncallsToTimetable ==
    /\ pc = "create_schedule"
    /\ timetable_dict' = oncalls_to_timetable(oncalls_list)
    /\ tracked_dict' = oncalls_to_timetable(SelectSeq(oncalls_list, HasTrackedLevel))
    /\ untracked' = \E k \in 1..Len(oncalls_list) : ~HasTrackedLevel(oncalls_list[k])
    /\ pc' = "timetable_normalize"
    /\ UNCHANGED <<err, timezone, source, payload, reply, data, requests, statuses,
                   oncalls_list, users_dict, timetable_list, i, schedule_list,
                   turns, printed, csv_file, portal>>

\* The same loop taking its records one at a time from a list of any length
\* that is not held in the state.
LoadNext ==
    /\ pc = "oncalls_to_timetable"
    /\ \E oncall \in Records :
         /\ timetable_dict' = LoadOncall(timetable_dict, oncall)
         /\ tracked_dict' = IF HasTrackedLevel(oncall)
                            THEN LoadOncall(tracked_dict, oncall)
                            ELSE tracked_dict
         /\ untracked' = (untracked \/ ~HasTrackedLevel(oncall))
    /\ UNCHANGED <<pc, err, timezone, source, payload, reply, data, requests, statuses,
                   oncalls_list, users_dict, timetable_list, i, schedule_list,
                   turns, printed, csv_file, portal>>

\* The list is exhausted.  users_dict and the timezone are read by the row loop
\* only; here they are drawn when oncalls_to_timetable returns.
LoadEnd ==
    /\ pc = "oncalls_to_timetable"
    /\ pc' = "timetable_normalize"
    /\ \E l \in UserSources : users_dict' = DictOfUsers(<<>>, l, 1)
    /\ timezone' \in TimeZones
    /\ UNCHANGED <<err, source, payload, reply, data, requests, statuses,
                   oncalls_list, timetable_dict, tracked_dict, untracked, timetable_list, i, schedule_list,
                   turns, printed, csv_file, portal>>

\* timetable_list = timetable_normalize(timetable_dict).  Its KeyError is no
\* RuntimeError: nothing catches it and the program ends with a traceback.
\* (The function fills the entries of timetable_dict in place; create_schedule
\* does not read timetable_dict again.)
Normalize ==
    /\ pc = "timetable_normalize"
    /\ LET r == timetable_normalize(timetable_dict)
       IN  IF r.err # None
           THEN /\ err' = r.err
                /\ pc' = "crashed"
                /\ UNCHANGED <<timetable_list, i>>
           ELSE /\ timetable_list' = r.list
                /\ i' = 1
                /\ pc' = "schedule_rows"
                /\ UNCHANGED err
    /\ UNCHANGED <<timezone, source, payload, reply, data, requests, statuses,
                   oncalls_list, users_dict, timetable_dict, tracked_dict, untracked, schedule_list,
                   turns, printed, csv_file, portal>>

\* One turn of "for i in range(len(timetable_list) - 1)"
Row ==
    /\ pc = "schedule_rows"
    /\ i <= Len(timetable_list) - 1
    /\ LET r == ScheduleRow(timetable_list, i, users_dict, timezone)
       IN  /\ turns' = Append(turns, [kind |-> r.kind, locals |-> r.locals])
           /\ CASE r.kind = "continue" ->
                    /\ i' = i + 1
                    /\ UNCHANGED <<pc, err, schedule_list>>
                [] r.kind = "raise" ->
                    /\ err' = r.err
                    /\ pc' = "crashed"
                    /\ UNCHANGED <<i, schedule_list>>
                [] r.kind = "append" ->
                    /\ schedule_list' = Append(schedule_list, r.row)
                    /\ i' = i + 1
                    /\ UNCHANGED <<pc, err>>
    /\ UNCHANGED <<timezone, source, payload, reply, data, requests, statuses,
                   oncalls_list, users_dict, timetable_dict, tracked_dict, untracked, timetable_list,
                   printed, csv_file, portal>>

\* return schedule_list
ScheduleReturn ==
    /\ pc = "schedule_rows"
    /\ i > Len(timetable_list) - 1
    /\ pc' = "print_schedule"
    /\ UNCHANGED <<err, timezone, source, payload, reply, data, requests, statuses,
                   oncalls_list, users_dict, timetable_dict, tracked_dict, untracked, timetable_list, i,
                   schedule_list, turns, printed, csv_file, portal>>

(***************************************************************************)
(* print_schedule, save_schedule                                           *)
(***************************************************************************)

PrintSchedule ==
    /\ pc = "print_schedule"
    /\ printed' = Append(printed, schedule_list)
    /\ pc' = "save_schedule"
    /\ UNCHANGED <<err, timezone, source, payload, reply, data, requests, statuses,
                   oncalls_list, users_dict, timetable_dict, tracked_dict, untracked, timetable_list, i,
                   schedule_list, turns, csv_file, portal>>

\* The lines of the CSV file: the header, then per row its start, end and the two phones
HeaderLine == [kind |-> "header"]
BlankLine == [kind |-> "blank"]
RowLine(row) == [kind |-> "row", StartDatum |-> row.start_local, EndeDatum |-> row.end_local,
                 Handy1 |-> row.primary_phone, Handy2 |-> row.secondary_phone]

CsvLines(rows) == <<HeaderLine>> \o [k \in 1..Len(rows) |-> RowLine(rows[k])]

SaveSchedule ==
    /\ pc = "save_schedule"
    /\ csv_file' = CsvLines(schedule_list)
    /\ pc' = "upload_schedule"
    /\ UNCHANGED <<err, timezone, source, payload, reply, data, requests, statuses,
                   oncalls_list, users_dict, timetable_dict, tracked_dict, untracked, timetable_list, i,
                   schedule_list, turns, printed, portal>>

(***************************************************************************)
(* upload_schedule: mobileworx_login, _upload, _verify, _save              *)
(***************************************************************************)

Reverse(f) == [k \in 1..Len(f) |-> f[Len(f) + 1 - k]]

\* What the portal may hand back for an uploaded file f: f itself, f in another
\* line order, f with a blank line, f without its first line, f with a line twice
PortalCopies(f) == {f, Reverse(f), f \o <<BlankLine>>, Tail(f), f \o <<Head(f)>>}

IsLine(line) == line.kind # "blank"

Count(f, x) == Cardinality({k \in 1..Len(f) : f[k] = x})

\* A comparison of the two files as sets of non-empty lines
SameLineSets(a, b) ==
    {a[k] : k \in {n \in 1..Len(a) : IsLine(a[n])}} =
    {b[k] : k \in {n \in 1..Len(b) : IsLine(b[n])}}

\* sorted(list(filter(None, a.split('\n')))) == sorted(list(filter(None, b.split('\n'))))
SameSortedLines(a, b) ==
    LET x == SelectSeq(a, IsLine)
        y == SelectSeq(b, IsLine)
    IN  /\ Len(x) = Len(y)
        /\ \A k \in 1..Len(x) : Count(x, x[k]) = Count(y, x[k])

\* raise RuntimeError(...), caught by main()
Raise ==
    /\ err' = "RuntimeError"
    /\ pc' = "return1"

\* session.get raises RetryError, caught by nothing
RaiseRetryError ==
    /\ err' = "RetryError"
    /\ pc' = "crashed"

Login ==
    /\ pc = "upload_schedule"
    /\ \E loggedin \in BOOLEAN :
         /\ portal' = [portal EXCEPT !.session = loggedin,
                                     !.log = Append(@, [step |-> "login", ok |-> loggedin])]
         /\ IF loggedin
            THEN /\ pc' = "mobileworx_upload"
                 /\ UNCHANGED err
            ELSE Raise
    /\ UNCHANGED <<timezone, source, payload, reply, data, requests, statuses,
                   oncalls_list, users_dict, timetable_dict, tracked_dict, untracked, timetable_list, i,
                   schedule_list, turns, printed, csv_file>>

\* The GET of the upload form, then the POST of the file
Upload ==
    /\ pc = "mobileworx_upload"
    /\ \E form \in Statuses, status \in Statuses, copy \in PortalCopies(csv_file) :
         IF form \in status_forcelist
         THEN /\ RaiseRetryError
              /\ portal' = [portal EXCEPT !.log =
                                Append(@, [step |-> "upload", status |-> form, ok |-> FALSE])]
         ELSE IF status = 200
         THEN /\ portal' = [portal EXCEPT !.uploaded = copy, !.log =
                                Append(@, [step |-> "upload", status |-> status, ok |-> TRUE])]
              /\ pc' = "mobileworx_verify"
              /\ UNCHANGED err
         ELSE /\ Raise
              /\ portal' = [portal EXCEPT !.log =
                                Append(@, [step |-> "upload", status |-> status, ok |-> FALSE])]
    /\ UNCHANGED <<timezone, source, payload, reply, data, requests, statuses,
                   oncalls_list, users_dict, timetable_dict, tracked_dict, untracked, timetable_list, i,
                   schedule_list, turns, printed, csv_file>>

Verify ==
    /\ pc = "mobileworx_verify"
    /\ \E status \in Statuses :
         LET ok == status = 200 /\ SameSortedLines(portal.uploaded, csv_file)
         IN  /\ portal' = [portal EXCEPT !.log =
                               Append(@, [step |-> "verify", status |-> status, ok |-> ok])]
             /\ IF status \in status_forcelist
                THEN RaiseRetryError
                ELSE IF ok
                THEN /\ pc' = "mobileworx_save"
                     /\ UNCHANGED err
                ELSE Raise
    /\ UNCHANGED <<timezone, source, payload, reply, data, requests, statuses,
                   oncalls_list, users_dict, timetable_dict, tracked_dict, untracked, timetable_list, i,
                   schedule_list, turns, printed, csv_file>>

Save ==
    /\ pc = "mobileworx_save"
    /\ \E status \in Statuses, liste \in BOOLEAN :
         /\ portal' = [portal EXCEPT !.save_sent = TRUE,
                                     !.committed = (status = 200 /\ liste),
                                     !.log = Append(@, [step |-> "save", status |-> status,
                                                        ok |-> (status = 200 /\ liste)])]
         /\ IF status = 200 /\ liste
            THEN /\ pc' = "return0"
                 /\ UNCHANGED err
            ELSE Raise
    /\ UNCHANGED <<timezone, source, payload, reply, data, requests, statuses,
                   oncalls_list, users_dict, timetable_dict, tracked_dict, untracked, timetable_list, i,
                   schedule_list, turns, printed, csv_file>>

(***************************************************************************)
(* The specifications                                                      *)
(***************************************************************************)

R(level, user, start, end) ==
    [escalation_level |-> level, user |-> user, start |-> start, end |-> end]

\* The record lists the 'oncalls' module holds in the specification of main()
OncallSources ==
    { <<>>,
      <<R(1, "u1", 0, 2), R(2, "u2", 1, 3)>>,
      <<R(1, "u1", 0, 1), R(1, "u2", 1, 2)>>,
      <<R(1, "u1", 1, 1)>>,
      <<R(1, "u1", 0, 2), R(2, "u2", 0, 2)>>,
      <<R(1, "u1", 0, 1), R(2, "u2", 0, 2), R(1, "u2", 1, 2)>>,
      <<R(1, "u1", 0, 1), R(2, "u2", 0, 1), R(3, "u1", 0, 3), R(1, "u2", 2, 3), R(2, "u1", 2, 3)>> }

UserDicts == {DictOfUsers(<<>>, l, 1) : l \in UserSources}

NoSource == [oncalls |-> <<>>, users |-> <<>>, limit |-> 1]
NoPortal == [session |-> FALSE, uploaded |-> <<>>, save_sent |-> FALSE, committed |-> FALSE,
             log |-> <<>>]

\* The state main() starts in, but for the inputs
Start ==
    /\ err = None
    /\ payload = <<>>
    /\ reply = FirstReply
    /\ data = <<>>
    /\ requests = 0
    /\ statuses = {}
    /\ timetable_dict = <<>>
    /\ tracked_dict = <<>>
    /\ untracked = FALSE
    /\ timetable_list = <<>>
    /\ i = 0
    /\ schedule_list = <<>>
    /\ turns = <<>>
    /\ printed = <<>>
    /\ csv_file = <<>>
    /\ portal = NoPortal

\* main()
Init ==
    /\ Start
    /\ pc = "get_oncalls"
    /\ timezone \in TimeZones
    /\ source \in [oncalls : OncallSources, users : UserSources, limit : 1..MaxLimit]
    /\ oncalls_list = <<>>
    /\ users_dict = <<>>

Next ==
    \/ Request
    \/ OncallsReturn
    \/ UsersReturn
    \/ OncallsToTimetable
    \/ Normalize
    \/ Row
    \/ ScheduleReturn
    \/ PrintSchedule
    \/ SaveSchedule
    \/ Login
    \/ Upload
    \/ Verify
    \/ Save

Spec == Init /\ [][Next]_vars

\* create_schedule(oncalls_list, users_dict) on every list of at most MaxLen records
InitInput ==
    /\ Start
    /\ pc = "create_schedule"
    /\ timezone \in TimeZones
    /\ source = NoSource
    /\ oncalls_list \in SeqsUpTo(Records, MaxLen)
    /\ users_dict \in UserDicts

NextInput ==
    \/ OncallsToTimetable
    \/ Normalize
    \/ Row
    \/ ScheduleReturn

SpecInput == InitInput /\ [][NextInput]_vars

\* create_schedule on the record lists of any length
InitBuild ==
    /\ Start
    /\ pc = "oncalls_to_timetable"
    /\ timezone = None
    /\ source = NoSource
    /\ oncalls_list = <<>>
    /\ users_dict = <<>>

NextBuild ==
    \/ LoadNext
    \/ LoadEnd
    \/ Normalize
    \/ Row
    \/ ScheduleReturn

SpecBuild == InitBuild /\ [][NextBuild]_vars

(***************************************************************************)
(* The claims                                                              *)
(***************************************************************************)

Tracked(oncall) == roles_map(oncall.escalation_level) \in Roles

WellFormed(l) == \A k \in 1..Len(l) : l[k].start < l[k].end

\* The assignments of a role that hold at the instant t, and the latest of them
Covering(l, role, t) ==
    {k \in 1..Len(l) : /\ roles_map(l[k].escalation_level) = role
                       /\ l[k].start <= t
                       /\ t < l[k].end}

Latest(l, role, t) ==
    {k \in Covering(l, role, t) : \A j \in Covering(l, role, t) : l[j].start <= l[k].start}

Occupants(l, role, t) ==
    IF Covering(l, role, t) = {} THEN {None} ELSE {l[k].user : k \in Latest(l, role, t)}

\* C1: forward-fill correctness.  For a list of assignments with start < end,
\* the resolved occupant of every tracked role at every timestamp of the
\* normalised timetable is the user of the latest assignment of the role with
\* start <= T < end (any of them when several start together), and None when
\* no assignment of the role holds at T.
C1_ForwardFill ==
    (pc = "schedule_rows" /\ WellFormed(oncalls_list)) =>
        \A n \in 1..Len(timetable_list), role \in Roles :
            timetable_list[n].roles[role]
                \in Occupants(oncalls_list, role, timetable_list[n].at)

Permuted(l, p) == [k \in 1..Len(l) |-> l[p[k]]]

\* C2: input-order independence.  Every permutation of a list of assignments
\* with start < end gives the resolved timetable the list itself gave.
C2_OrderIndependent ==
    (pc = "schedule_rows" /\ WellFormed(oncalls_list)) =>
        \A p \in Permutations(1..Len(oncalls_list)) :
            timetable_normalize(oncalls_to_timetable(Permuted(oncalls_list, p)))
                = [err |-> None, list |-> timetable_list]

\* The records a and b of l are a handover of one role at a's end, and no
\* other record of the role starts or ends at that instant.
Handover(l, a, b) ==
    /\ a # b
    /\ Tracked(l[a])
    /\ l[a].escalation_level = l[b].escalation_level
    /\ l[a].start < l[a].end
    /\ l[b].start < l[b].end
    /\ l[a].end = l[b].start
    /\ l[a].user # l[b].user
    /\ \A c \in 1..Len(l) \ {a, b} :
          l[c].escalation_level = l[a].escalation_level
              => l[c].start # l[a].end /\ l[c].end # l[a].end

\* C3: clean handover.  When an assignment of a role ends at T1 and another
\* assignment of the role, to a different user, starts at T1, the entry of T1
\* holds the new user for the role, whichever of the two comes first in the list.
C3_CleanHandover ==
    pc = "timetable_normalize" =>
        \A a, b \in 1..Len(oncalls_list) :
            Handover(oncalls_list, a, b) =>
                timetable_dict[oncalls_list[b].start][roles_map(oncalls_list[b].escalation_level)]
                    = oncalls_list[b].user

\* C4: first-snapshot default.  On a list of assignments with start < end,
\* timetable_normalize raises nothing, and in the first snapshot every tracked
\* role that the earliest timestamp neither sets nor clears is vacant.
C4_FirstSnapshotDefault ==
    WellFormed(oncalls_list) =>
    /\ ~(pc = "crashed" /\ timetable_list = <<>>)
    /\ timetable_list # <<>> =>
          \A role \in Roles \ DOMAIN timetable_dict[timetable_list[1].at] :
              timetable_list[1].roles[role] = None

Known(users, user_id) ==
    user_id = None \/ (get_phone(users, user_id).err = None /\ get_username(users, user_id).err = None)

\* C5: on a list of assignments with start < end, a candidate row with one
\* tracked role occupied (by a user of the directory who has a phone) and the
\* other vacant is appended to the schedule; create_schedule does not fail on it.
C5_PartlyVacantRowEmitted ==
    WellFormed(oncalls_list) =>
    \A k \in 1..Len(turns) :
        LET t == turns[k].locals
        IN  ( /\ (t.primary = None) # (t.secondary = None)
              /\ Known(users_dict, t.primary)
              /\ Known(users_dict, t.secondary) )
            => turns[k].kind = "append"

HasZeroLength(l) == \E k \in 1..Len(l) : Tracked(l[k]) /\ l[k].start = l[k].end

\* C6: zero-length assignment.  On a list that holds an assignment with
\* start = end, create_schedule ends with no unhandled error and appends no
\* row whose end is before its start.
C6_ZeroLength ==
    HasZeroLength(oncalls_list) =>
        /\ pc # "crashed"
        /\ \A k \in 1..Len(turns) :
              turns[k].kind = "append" => turns[k].locals.start <= turns[k].locals.end

IsAppend(turn) == turn.kind = "append"

\* C7: contiguity.  The loop of create_schedule takes the N snapshots in order,
\* turn k spanning from the timestamp of snapshot k to that of snapshot k+1, so
\* that each turn ends where the next starts and a completed loop has made N-1
\* turns; the rows of the schedule are the appended turns in order, each with
\* the converted start and (end minus one second) of its turn.
C7_Contiguity ==
    LET N == Len(timetable_list)
        appended == SelectSeq(turns, IsAppend)
    IN  /\ \A k \in 1..Len(turns) :
              /\ k <= N - 1
              /\ turns[k].locals.i = k
              /\ turns[k].locals.start = timetable_list[k].at
              /\ turns[k].locals.end = timetable_list[k + 1].at
        /\ \A k \in 1..(Len(turns) - 1) : turns[k].locals.end = turns[k + 1].locals.start
        /\ (pc = "print_schedule" /\ N >= 1) => Len(turns) = N - 1
        /\ Len(schedule_list) = Len(appended)
        /\ \A k \in 1..Len(schedule_list) :
              /\ schedule_list[k].start_local = utc_to_local(timezone, appended[k].locals.start)
              /\ schedule_list[k].end_local = utc_to_local(timezone, appended[k].locals.end - 1)

\* create_schedule has returned after two turns, the first appended and the
\* second too
C7_Witness ==
    /\ pc = "print_schedule"
    /\ Len(turns) = 2
    /\ Len(schedule_list) = 2

\* C8: suppression.  No row of the schedule was appended by a turn whose
\* primary and secondary are both vacant.
C8_Suppression ==
    \A k \in 1..Len(turns) :
        turns[k].kind = "append" =>
            ~(turns[k].locals.primary = None /\ turns[k].locals.secondary = None)

\* create_schedule has returned a row after a turn with no oncall person
C8_Witness ==
    /\ pc = "print_schedule"
    /\ Len(schedule_list) >= 1
    /\ \E k \in 1..Len(turns) :
          /\ turns[k].kind = "continue"
          /\ turns[k].locals.primary = None
          /\ turns[k].locals.secondary = None

SameRecords(a, b) ==
    /\ Len(a) = Len(b)
    /\ \A k \in 1..Len(a) : Count(a, a[k]) = Count(b, a[k])

\* C9: pagination completeness.  What pagerduty_api_request returns holds
\* every record of the source exactly once.
C9_PaginationComplete ==
    /\ (pc = "get_users" /\ requests = 0) => SameRecords(oncalls_list, source.oncalls)
    /\ pc = "create_schedule" => SameRecords(data, source.users)

\* C10: a page request of get_oncalls or get_users that ends with a status
\* other than 200 raises (RuntimeError, and main() returns 1; RetryError when
\* the retries of the status are used up, and main() ends with it), and no
\* timetable is built, no schedule printed, no CSV file written and no upload
\* step started.
C10_FatalCollectionError ==
    (\E status \in statuses : status # 200) =>
        /\ \/ pc = "return1" /\ err = "RuntimeError"
           \/ pc = "crashed" /\ err = "RetryError"
        /\ timetable_dict = <<>>
        /\ timetable_list = <<>>
        /\ turns = <<>>
        /\ schedule_list = <<>>
        /\ printed = <<>>
        /\ csv_file = <<>>
        /\ portal = NoPortal

\* A later page of get_users fails after get_oncalls has returned records
C10_Witness ==
    /\ \E status \in statuses : status # 200
    /\ pc = "return1"
    /\ err = "RuntimeError"
    /\ oncalls_list # <<>>
    /\ requests >= 2

\* C11: a record whose escalation level is neither 1 nor 2 adds no timestamp
\* and no role entry to the timetable: after every record read, timetable_dict
\* is the dictionary that the records of the levels 1 and 2 alone give; and
\* when create_schedule has ended, its rows (and its exception, if it raised
\* one) are those of the list without the records of the other levels.
C11_UntrackedIgnored ==
    /\ timetable_dict = tracked_dict
    /\ pc \in {"print_schedule", "crashed"} =>
          LET without == ScheduleOf(tracked_dict, users_dict, timezone)
          IN  /\ schedule_list = without.rows
              /\ err = without.err

\* A list with a record of another level whose schedule has a row
C11_Witness ==
    /\ pc = "print_schedule"
    /\ untracked
    /\ schedule_list # <<>>

\* The list read so far is empty: no record of a tracked level has left a
\* timestamp and no record of another level has been read.
EmptyInput == timetable_dict = <<>> /\ ~untracked

\* C12: on an empty input list oncalls_to_timetable, timetable_normalize and
\* create_schedule raise nothing: the timetable stays empty, the row loop
\* makes no turn and create_schedule returns an empty list of rows.
C12_EmptyInput ==
    EmptyInput =>
        /\ err = None
        /\ pc # "crashed"
        /\ timetable_list = <<>>
        /\ turns = <<>>
        /\ schedule_list = <<>>

\* create_schedule has returned on the empty list
C12_Witness ==
    /\ EmptyInput
    /\ pc = "print_schedule"
    /\ schedule_list = <<>>
    /\ err = None

\* C13: display end adjustment.  Every row of the schedule shows the wall
\* clock of its start boundary itself and the wall clock of the instant one
\* second before the next boundary; so the instant its end shows is not before
\* the instant its start shows, and is strictly before the instant that the
\* start of every later row shows.
C13_DisplayEnd ==
    LET appended == SelectSeq(turns, IsAppend)
        ShownStart(k) == timetable_list[appended[k].locals.i].at
        ShownEnd(k) == timetable_list[appended[k].locals.i + 1].at - 1
    IN  /\ Len(schedule_list) = Len(appended)
        /\ \A k \in 1..Len(schedule_list) :
              /\ schedule_list[k].start_local = utc_to_local(timezone, ShownStart(k))
              /\ schedule_list[k].end_local = utc_to_local(timezone, ShownEnd(k))
              /\ ShownStart(k) <= ShownEnd(k)
              /\ \A j \in (k + 1)..Len(schedule_list) : ShownEnd(k) < ShownStart(j)

\* Two rows around the end of daylight saving time: the first row's end and
\* the second row's start show the same wall clock, one second apart as instants
C13_Witness ==
    /\ pc = "print_schedule"
    /\ Len(schedule_list) = 2
    /\ timezone = FallBack
    /\ schedule_list[1].end_local = schedule_list[2].start_local

\* The role is set or cleared at the timestamp by some record
Mentioned(at, role) == role \in DOMAIN timetable_dict[at]

\* C14: carry-forward step.  The snapshots of timetable_list are the
\* timestamps of timetable_dict, each once, in strictly increasing order; in
\* every snapshot but the first a role set or cleared at its timestamp has
\* that value, and a role not mentioned there has the value it has in the
\* snapshot just before.
C14_CarryForward ==
    LET N == Len(timetable_list)
    IN  N >= 1 =>
          /\ N = Cardinality(DOMAIN timetable_dict)
          /\ {timetable_list[n].at : n \in 1..N} = DOMAIN timetable_dict
          /\ \A n \in 1..(N - 1) : timetable_list[n].at < timetable_list[n + 1].at
          /\ \A n \in 2..N : \A role \in Roles :
                timetable_list[n].roles[role] =
                    IF Mentioned(timetable_list[n].at, role)
                    THEN timetable_dict[timetable_list[n].at][role]
                    ELSE timetable_list[n - 1].roles[role]

\* Three snapshots, the third not mentioning a role that the second cleared
\* and the first had set
C14_Witness ==
    /\ Len(timetable_list) = 3
    /\ \E role \in Roles :
          /\ ~Mentioned(timetable_list[3].at, role)
          /\ Mentioned(timetable_list[2].at, role)
          /\ timetable_list[3].roles[role] = None
          /\ timetable_list[1].roles[role] # None

\* The order of the steps of upload_schedule
UploadSteps == <<"login", "upload", "verify", "save">>

\* The two files have the same non-empty lines, each as many times: some
\* rearrangement of the lines of one gives the other
SameLines(a, b) ==
    LET x == SelectSeq(a, IsLine)
        y == SelectSeq(b, IsLine)
    IN  /\ Len(x) = Len(y)
        /\ \E p \in Permutations(1..Len(x)) : \A k \in 1..Len(x) : x[k] = y[p[k]]

\* C15: upload protocol order.  The steps run against the portal are login,
\* upload, verify, save in this order, each after the success of the one
\* before; an upload or a download answered with another status than 200 does
\* not succeed, a verification succeeds only if the downloaded file and the
\* CSV file have the same non-empty lines, so the save request is sent only
\* then; and a step that fails is the last one and leaves main() with an error.
C15_UploadOrder ==
    LET log == portal.log
    IN  /\ Len(log) <= Len(UploadSteps)
        /\ \A k \in 1..Len(log) :
              /\ log[k].step = UploadSteps[k]
              /\ k > 1 => log[k - 1].ok
              /\ log[k].step \in {"upload", "verify"} /\ log[k].status # 200 => ~log[k].ok
              /\ log[k].step = "verify" /\ log[k].ok => SameLines(portal.uploaded, csv_file)
              /\ ~log[k].ok =>
                    /\ k = Len(log)
                    /\ err \in {"RuntimeError", "RetryError"}
                    /\ pc \in {"return1", "crashed"}
        /\ portal.save_sent <=>
              (Len(log) = Len(UploadSteps) /\ log[3].status = 200 /\ SameLines(portal.uploaded, csv_file))
        /\ portal.session <=> (Len(log) >= 1 /\ log[1].ok)

\* All four steps have run and the save went through on a portal copy that
\* holds the rows of the CSV file in another order
C15_Witness ==
    /\ pc = "return0"
    /\ Len(portal.log) = Len(UploadSteps)
    /\ portal.committed
    /\ Len(csv_file) >= 2
    /\ portal.uploaded # csv_file

\* C16: pagination terminates.  While the loop of pagerduty_api_request goes
\* on after a reply, the offset its next request carries is strictly greater
\* than the offset of the request just answered, so that the requests move
\* through the finite list and reach its last page.
C16_OffsetsIncrease ==
    (pc \in {"get_oncalls", "get_users"} /\ requests >= 1 /\ reply.more = TRUE) =>
        payload["offset"] > reply.offset

====
